---- MODULE Spec2Model ----
(***************************************************************************)
(* STPPG (src/stppg.py): the Gaussian diffusion kernel, the Hawkes         *)
(* intensity HawkesLam and the two-stage sampler of                        *)
(* SpatialTemporalPointProcess (homogeneous Poisson proposals, Ogata       *)
(* thinning, batching into a zero-padded array).                           *)
(*                                                                         *)
(* Numbers.  Times and coordinates are drawn from integer grids.  An       *)
(* intensity is a float of the program: either NaN or a fixed-point value  *)
(* in units of 1e-4, written [nan |-> .., v |-> ..].  Every comparison     *)
(* with NaN is false, as in IEEE-754 / numpy.  A uniform draw D is the     *)
(* rational <<num, den>> with 0 <= num < den.                              *)
(***************************************************************************)
EXTENDS Integers, Sequences, FiniteSets, TLC

\* ------------------------------------------------------------------ bounds
\* Largest proposal count N the Poisson draw is allowed to return.
MaxN == 2

\* ------------------------------------------------------------- input sets
\* GaussianDiffusionKernel(rho=, sigma_x=): the correlation and x-spread the
\* caller passes; the other parameters keep their defaults (mu_x = mu_y = 0,
\* sigma_y = 1, beta = 1, C = 1).
KernelParams == <<[rho |-> 0, sigma_x |-> 1],
                  [rho |-> 1, sigma_x |-> 1],
                  [rho |-> 0, sigma_x |-> 0]>>
\* HawkesLam(mu, kernel, maximum), in units of 1e-4.
MuVals == <<300, 0>>
MaximumVals == {500, 1000}
\* generate(T=[0, Tmax], S=[[0, 1]] * dims, batch_size, min_n_points, verbose)
TmaxVals == {0, 1}
DimsVals == <<2, 1, 0>>
BatchVals == {1, 2}
MinPointsVals == {0, 1}
\* grid of a spatial interval [0, 1]
SGrid == {0, 1}
\* np.random.uniform() draws D in [0, 1): here 0 or 1/2.
DVals == {<<0, 1>>, <<1, 2>>}

\* ------------------------------------------------------------------ floats
F(x) == [nan |-> FALSE, v |-> x]
NaN == [nan |-> TRUE, v |-> 0]
FAdd(a, b) == IF a.nan \/ b.nan THEN NaN ELSE F(a.v + b.v)
\* a > b with a float a and a finite b
FGt(a, b) == ~a.nan /\ a.v > b
\* a >= D * b with a float a, a draw D = <<num, den>> and a finite b
FGeScaled(a, d, b) == ~a.nan /\ a.v * d[2] >= d[1] * b

VARIABLES
    pc,           \* position of the caller / of generate
    kernel,       \* the GaussianDiffusionKernel object (its rho, sigma_x)
    lam,          \* the HawkesLam object: mu, maximum
    args,         \* the arguments of generate
    homo_points,  \* the proposal pool of the current attempt
    retained_points,
    i,            \* number of candidates the thinning loop has processed
    lam_value,    \* last intensity computed by thinning
    Ds,           \* the uniform draws of the current attempt, in order
    points,       \* what thinning returned: [none |-> .., pts |-> ..]
    points_list, sizes, max_len, b,
    data,         \* the padded array generate returns
    err           \* the exception that ended the call, "" if none

vars == <<pc, kernel, lam, args, homo_points, retained_points, i, lam_value,
          Ds, points, points_list, sizes, max_len, b, data, err>>

NoKernel == [built |-> FALSE, rho |-> 0, sigma_x |-> 1]
NoLam == [mu |-> 0, maximum |-> 0]
NoArgs == [Tmax |-> 0, dims |-> 0, batch_size |-> 0, min_n_points |-> 0,
           verbose |-> FALSE]
NoPoints == [none |-> TRUE, pts |-> <<>>]

Init ==
    /\ pc = "new"
    /\ kernel = NoKernel
    /\ lam = NoLam
    /\ args = NoArgs
    /\ homo_points = <<>>
    /\ retained_points = <<>>
    /\ i = 0
    /\ lam_value = F(0)
    /\ Ds = <<>>
    /\ points = NoPoints
    /\ points_list = <<>>
    /\ sizes = <<>>
    /\ max_len = 0
    /\ b = 0
    /\ data = <<>>
    /\ err = ""

\* GaussianDiffusionKernel.__init__: stores its parameters as given.
GaussianDiffusionKernel(rho, sigma_x) ==
    [built |-> TRUE, rho |-> rho, sigma_x |-> sigma_x]

NewKernel ==
    /\ pc = "new"
    /\ \E n \in 1..Len(KernelParams) :
          kernel' = GaussianDiffusionKernel(KernelParams[n].rho,
                                            KernelParams[n].sigma_x)
    /\ pc' = "kernel"
    /\ UNCHANGED <<lam, args, homo_points, retained_points, i, lam_value, Ds,
                   points, points_list, sizes, max_len, b, data, err>>


\* --------------------------------------------------------------- the kernel
\* round(1000 * exp(-k / 4)) for k = 0 .. 20, 0 beyond; the reciprocal for k < 0
ExpQTable == <<1000, 779, 607, 472, 368, 287, 223, 174, 135, 105, 82,
               64, 50, 39, 30, 24, 18, 14, 11, 9, 7>>
ExpQ(k) ==
    IF k >= 0
    THEN (IF k + 1 <= Len(ExpQTable) THEN ExpQTable[k + 1] ELSE 0)
    ELSE (IF 1 - k <= Len(ExpQTable) THEN 1000000 \div ExpQTable[1 - k]
          ELSE 1000000)

\* NuAt with a guard in place of the division by a zero delta_t: a historical
\* event of the same time contributes nothing.
NuAtGuarded(k, t, s, ht, hs) ==
    LET delta_t == t - ht
        delta_x == s[1] - hs[1]
        delta_y == s[2] - hs[2]
        om      == 1 - k.rho * k.rho
        sx      == k.sigma_x
        quad    == delta_x * delta_x + sx * sx * delta_y * delta_y
                   - 2 * k.rho * sx * delta_x * delta_y
    IN  IF sx = 0 \/ om <= 0
        THEN NaN
        ELSE IF delta_t = 0
        THEN F(0)
        ELSE F((ExpQ(4 * delta_t) * ExpQ((2 * quad) \div (sx * sx * delta_t * om)))
               \div (628 * sx * delta_t))

\* One entry of GaussianDiffusionKernel.nu: the contribution of the historical
\* event (ht, hs) at (t, s), in units of 1e-4.  A zero delta_t, a zero spread
\* or 1 - rho^2 <= 0 makes numpy divide by zero (or take the root of a negative
\* number): the products inf * 0 and 0 / 0 that follow are NaN.
NuAt(k, t, s, ht, hs) ==
    LET delta_t == t - ht
        delta_x == s[1] - hs[1]
        delta_y == s[2] - hs[2]
        om      == 1 - k.rho * k.rho
        sx      == k.sigma_x
        quad    == delta_x * delta_x + sx * sx * delta_y * delta_y
                   - 2 * k.rho * sx * delta_x * delta_y
    IN  IF delta_t = 0 \/ sx = 0 \/ om <= 0
        THEN NaN
        ELSE F((ExpQ(4 * delta_t) * ExpQ((2 * quad) \div (sx * sx * delta_t * om)))
               \div (628 * sx * delta_t))

\* np.sum(kernel.nu(t, s, his_t, his_s)) over the retained history
RECURSIVE SumNu(_, _, _, _)
SumNu(k, t, s, his) ==
    IF his = <<>>
    THEN F(0)
    ELSE FAdd(NuAt(k, t, s, Head(his)[1], Tail(Head(his))),
              SumNu(k, t, s, Tail(his)))

\* kernel.nu indexes delta_s[:, 0] and delta_s[:, 1]: with fewer than two
\* spatial columns that is an IndexError.
NuRaises(cand) == Len(cand) < 3

\* HawkesLam.value(t, his_t, s, his_s)
HawkesValue(l, k, cand, his) ==
    IF Len(his) > 0
    THEN FAdd(F(l.mu), SumNu(k, cand[1], Tail(cand), his))
    ELSE F(l.mu)

\* HawkesLam.upper_bound()
UpperBound(l) == l.maximum

\* -------------------------------------------------------------- the sampler
\* utils.lebesgue_measure([T] + S) with T = [0, Tmax] and every S_k = [0, 1]
LebesgueMeasure(a) == a.Tmax

\* the points of the grid of [T] + S
GridPoints(a) ==
    {p \in [1..(1 + a.dims) -> (0..a.Tmax) \cup SGrid] :
        /\ p[1] \in 0..a.Tmax
        /\ \A c \in 2..(1 + a.dims) : p[c] \in SGrid}

\* points[:, 0].argsort(): a permutation that puts the times in ascending
\* order (the order among equal times is not specified)
Argsort(raw) ==
    {p \in [1..Len(raw) -> 1..Len(raw)] :
        /\ \A x, y \in 1..Len(raw) : x # y => p[x] # p[y]
        /\ \A x \in 1..(Len(raw) - 1) : raw[p[x]][1] <= raw[p[x + 1]][1]}

\* the counts np.random.poisson(lam = mean) can return (capped at MaxN)
PoissonCounts(mean) == IF mean = 0 THEN {0} ELSE 0..MaxN

\* ViolationResult that salvages the points retained before the violation
SalvageResult(retained) == [none |-> FALSE, pts |-> retained]

\* what thinning returns on a bound violation
ViolationResult(retained) == NoPoints

\* Retain with the arguments of the concatenation swapped
RetainFront(retained, cand) == <<cand>> \o retained

\* np.concatenate([retained_points, homo_points[[i], :]])
Retain(retained, cand) == Append(retained, cand)

\* Rejected without the test of the length
RejectedOnFailureOnly(pts, min_n_points) == pts.none

\* the test of generate: the attempt is thrown away
Rejected(pts, min_n_points) == pts.none \/ Len(pts.pts) < min_n_points

\* "i % int(homo_points.shape[0] / 10) == 0" divides by zero
ProgressRaises(verbose, idx, n) == verbose /\ idx # 0 /\ (n \div 10) = 0

\* HawkesLam(mu, kernel, maximum), SpatialTemporalPointProcess(lam) and the
\* entry of generate (its locals are set up)
GenerateCall ==
    /\ pc = "kernel"
    /\ \E m \in 1..Len(MuVals), maximum \in MaximumVals :
          lam' = [mu |-> MuVals[m], maximum |-> maximum]
    /\ \E d \in 1..Len(DimsVals), tm \in TmaxVals, bs \in BatchVals,
          mn \in MinPointsVals, vb \in BOOLEAN :
          args' = [Tmax |-> tm, dims |-> DimsVals[d], batch_size |-> bs,
                   min_n_points |-> mn, verbose |-> vb]
    /\ points_list' = <<>>
    /\ sizes' = <<>>
    /\ max_len' = 0
    /\ b' = 0
    /\ pc' = "loop"
    /\ UNCHANGED <<kernel, homo_points, retained_points, i, lam_value, Ds,
                   points, data, err>>

\* _homogeneous_poisson_sampling, then the entry of
\* _inhomogeneous_poisson_thinning
Propose ==
    /\ pc = "loop"
    /\ b < args.batch_size
    /\ \E N \in PoissonCounts(UpperBound(lam) * LebesgueMeasure(args)) :
       \E raw \in [1..N -> GridPoints(args)] :
       \E p \in Argsort(raw) :
          homo_points' = [x \in 1..N |-> raw[p[x]]]
    /\ retained_points' = <<>>
    /\ i' = 0
    /\ Ds' = <<>>
    /\ lam_value' = F(0)
    /\ points' = NoPoints
    /\ pc' = "thin"
    /\ UNCHANGED <<kernel, lam, args, points_list, sizes, max_len, b, data, err>>

\* one iteration of the thinning loop, for candidate homo_points[i + 1]
\* (index i of the code)
ThinStep ==
    /\ pc = "thin"
    /\ i < Len(homo_points)
    /\ LET cand == homo_points[i + 1]
       IN  IF Len(retained_points) > 0 /\ NuRaises(cand)
           THEN /\ pc' = "raised"
                /\ err' = "IndexError"
                /\ UNCHANGED <<retained_points, i, lam_value, Ds, points>>
           ELSE \E D \in DVals :
                LET val == HawkesValue(lam, kernel, cand, retained_points)
                    lam_bar == UpperBound(lam)
                IN  /\ lam_value' = val
                    /\ Ds' = Append(Ds, D)
                    /\ i' = i + 1
                    /\ IF FGt(val, lam_bar)
                       THEN /\ points' = ViolationResult(retained_points)
                            /\ pc' = "thinned"
                            /\ UNCHANGED <<retained_points, err>>
                       ELSE /\ retained_points' =
                                 IF FGeScaled(val, D, lam_bar)
                                 THEN Retain(retained_points, cand)
                                 ELSE retained_points
                            /\ IF ProgressRaises(args.verbose, i, Len(homo_points))
                               THEN pc' = "raised" /\ err' = "ZeroDivisionError"
                               ELSE pc' = "thin" /\ err' = err
                            /\ UNCHANGED points
    /\ UNCHANGED <<kernel, lam, args, homo_points, points_list, sizes, max_len,
                   b, data>>

\* the loop is over: thinning returns retained_points
ThinReturn ==
    /\ pc = "thin"
    /\ i = Len(homo_points)
    /\ points' = [none |-> FALSE, pts |-> retained_points]
    /\ pc' = "thinned"
    /\ UNCHANGED <<kernel, lam, args, homo_points, retained_points, i,
                   lam_value, Ds, points_list, sizes, max_len, b, data, err>>

\* The locals of an attempt (the pool, what thinning kept and returned) are
\* dead once generate has looked at the result: the next attempt overwrites
\* them before reading them.
Forget ==
    /\ homo_points' = <<>>
    /\ retained_points' = <<>>
    /\ i' = 0
    /\ lam_value' = F(0)
    /\ Ds' = <<>>
    /\ points' = NoPoints

\* generate: "if points is None or len(points) < min_n_points: continue"
Discard ==
    /\ pc = "thinned"
    /\ Rejected(points, args.min_n_points)
    /\ pc' = "loop"
    /\ Forget
    /\ UNCHANGED <<kernel, lam, args, points_list, sizes, max_len, b, data, err>>

\* generate: the attempt is recorded and the slot counter advances
Record ==
    /\ pc = "thinned"
    /\ ~Rejected(points, args.min_n_points)
    /\ max_len' = IF max_len < Len(points.pts) THEN Len(points.pts) ELSE max_len
    /\ points_list' = Append(points_list, points.pts)
    /\ sizes' = Append(sizes, Len(points.pts))
    /\ b' = b + 1
    /\ pc' = "loop"
    /\ Forget
    /\ UNCHANGED <<kernel, lam, args, data, err>>

\* number of columns of the array generate allocates: np.zeros((.., .., 3))
DataCols == 3

\* "data[b, :n] = pts" for a row of max_len zero events: rows of DataCols
\* columns are copied, rows of one column are broadcast over the columns, any
\* other width cannot be broadcast (ValueError)
Broadcasts(cols) == cols = DataCols \/ cols = 1
ZeroEvent == [c \in 1..DataCols |-> 0]
PackRow(pts, len, cols) ==
    [j \in 1..len |->
        IF j <= Len(pts)
        THEN (IF cols = 1 THEN [c \in 1..DataCols |-> pts[j][1]] ELSE pts[j])
        ELSE ZeroEvent]

\* generate: "fit the data into a tensor" and return
Pack ==
    /\ pc = "loop"
    /\ b >= args.batch_size
    /\ IF Broadcasts(1 + args.dims)
       THEN /\ data' = [r \in 1..args.batch_size |->
                           PackRow(points_list[r], max_len, 1 + args.dims)]
            /\ pc' = "done"
            /\ err' = err
       ELSE /\ pc' = "raised"
            /\ err' = "ValueError"
            /\ data' = data
    /\ UNCHANGED <<kernel, lam, args, homo_points, retained_points, i,
                   lam_value, Ds, points, points_list, sizes, max_len, b>>

Next ==
    \/ NewKernel
    \/ GenerateCall
    \/ Propose
    \/ ThinStep
    \/ ThinReturn
    \/ Discard
    \/ Record
    \/ Pack

Spec == Init /\ [][Next]_vars

\* generate is straight-line, single-threaded code: it always takes its next step
FairSpec == Init /\ [][Next]_vars /\ WF_vars(Next)


\* ------------------------------------------------------------------ helpers
Finished == pc \in {"done", "raised"}
Thinning == pc \in {"thin", "thinned"}

RECURSIVE IsSubseq(_, _)
IsSubseq(a, c) ==
    \/ a = <<>>
    \/ /\ c # <<>>
       /\ IF Head(a) = Head(c) THEN IsSubseq(Tail(a), Tail(c))
                               ELSE IsSubseq(a, Tail(c))

TimeSorted(pts) == \A x \in 1..(Len(pts) - 1) : pts[x][1] <= pts[x + 1][1]
TimeStrict(pts, n) == \A x \in 1..(n - 1) : pts[x][1] < pts[x + 1][1]

RECURSIVE MaxOf(_)
MaxOf(q) ==
    IF q = <<>> THEN 0
    ELSE LET m == MaxOf(Tail(q)) IN IF Head(q) > m THEN Head(q) ELSE m

Exceeded == FGt(lam_value, UpperBound(lam))

\* ------------------------------------------------------------------- claims

\* C1: an intensity above the upper bound stops thinning at once with the
\* result None, and generate throws that attempt away: nothing is recorded
\* and the slot counter stays, so no returned sequence holds points retained
\* in an attempt with a bound violation.
C1_ViolationDiscarded ==
    /\ [](Exceeded => pc = "thinned" /\ points.none)
    /\ [][(pc = "thinned" /\ Exceeded) =>
             /\ pc' = "loop"
             /\ points_list' = points_list
             /\ sizes' = sizes
             /\ b' = b]_vars

\* a bound violation after a point had already been retained
C1_Witness == pc = "thinned" /\ Exceeded /\ Len(retained_points) > 0

\* C3: an attempt whose thinning failed or that retained fewer than
\* min_n_points points is discarded whole (the slot counter and the recorded
\* lists stay); when generate returns, exactly batch_size sequences are
\* recorded and every length is at least min_n_points.
C3_DiscardAndRetry ==
    /\ [](/\ Len(points_list) = b
          /\ Len(sizes) = b
          /\ pc = "done" =>
                /\ b = args.batch_size
                /\ \A r \in 1..b : /\ sizes[r] >= args.min_n_points
                                   /\ sizes[r] = Len(points_list[r]))
    /\ [][(pc = "thinned" /\ (points.none \/ Len(points.pts) < args.min_n_points)) =>
             /\ pc' = "loop"
             /\ points_list' = points_list
             /\ sizes' = sizes
             /\ b' = b]_vars

\* the second slot's attempt came back too short and is about to be redrawn
C3_Witness ==
    /\ pc = "thinned"
    /\ b = 1
    /\ ~points.none
    /\ Len(points.pts) < args.min_n_points

\* C4: the real events of every recorded and every returned sequence are
\* strictly ascending in time, also when the proposal pool holds candidates
\* with equal times.
C4_StrictlyAscending ==
    /\ \A r \in 1..Len(points_list) :
          TimeStrict(points_list[r], Len(points_list[r]))
    /\ pc = "thinned" /\ ~points.none => TimeStrict(points.pts, Len(points.pts))
    /\ pc = "done" => \A r \in 1..Len(data) : TimeStrict(data[r], sizes[r])

\* a two-event sequence is recorded, and the current pool held two candidates
\* of equal time of which thinning kept one
C4_Witness ==
    /\ pc = "thinned"
    /\ Len(points_list) = 1
    /\ Len(points_list[1]) = 2
    /\ Len(homo_points) = 2
    /\ homo_points[1][1] = homo_points[2][1]
    /\ ~points.none
    /\ Len(points.pts) = 1

\* C8: thinning starts from an empty retained set and takes the candidates in
\* the ascending-time order of the pool; candidate i is evaluated against the
\* candidates retained so far and, absent a bound violation, appended if and
\* only if its intensity is at least D * upper_bound.  The retained set is an
\* order-preserving subsequence of the pool and only grows by appending.
C8_ThinningOrder ==
    /\ [](Thinning =>
             /\ TimeSorted(homo_points)
             /\ IsSubseq(retained_points, SubSeq(homo_points, 1, i)))
    /\ [][/\ (pc = "loop" /\ pc' = "thin") => (retained_points' = <<>> /\ i' = 0)
          /\ (pc = "thin" /\ i' = i) => retained_points' = retained_points
          /\ (pc = "thin" /\ i' = i + 1) =>
                LET cand == homo_points[i + 1]
                    D    == Ds'[i + 1]
                    val  == lam_value'
                IN  /\ val = HawkesValue(lam, kernel, cand, retained_points)
                    /\ Len(Ds') = i + 1
                    /\ (val.nan \/ val.v <= lam.maximum) =>
                          IF ~val.nan /\ val.v * D[2] >= D[1] * lam.maximum
                          THEN retained_points' = retained_points \o <<cand>>
                          ELSE retained_points' = retained_points]_vars

\* the first candidate was rejected and the second, a different point, kept
C8_Witness ==
    /\ pc = "thin"
    /\ i = 2
    /\ homo_points[1] # homo_points[2]
    /\ retained_points = <<homo_points[2]>>

\* C2: the returned array has shape (batch_size, max(lengths), 1 + len(S));
\* row r holds sequence r in its first lengths[r] places and zeros after.
C2_BatchShape ==
    pc = "done" =>
        /\ Len(data) = args.batch_size
        /\ \A r \in 1..Len(data) :
              /\ Len(data[r]) = MaxOf(sizes)
              /\ \A j \in 1..Len(data[r]) :
                    /\ Len(data[r][j]) = 1 + args.dims
                    /\ j <= sizes[r] => data[r][j] = points_list[r][j]
                    /\ j > sizes[r] => \A c \in 1..Len(data[r][j]) : data[r][j][c] = 0

\* C5: whenever thinning evaluates the kernel for a candidate against a
\* non-empty history, every historical time is strictly below the candidate's
\* (delta_t > 0).
C5_DeltaTPositive ==
    (/\ pc = "thin"
     /\ i < Len(homo_points)
     /\ Len(retained_points) > 0
     /\ ~NuRaises(homo_points[i + 1])) =>
        \A h \in 1..Len(retained_points) :
            homo_points[i + 1][1] - retained_points[h][1] > 0

\* C6: a generate whose min_n_points exceeds what the proposals can produce
\* (the Poisson mean upper_bound * volume is 0, so every pool is empty) does
\* not retry for ever: the call ends.
Starved ==
    /\ pc = "loop"
    /\ args.min_n_points > 0
    /\ UpperBound(lam) * LebesgueMeasure(args) = 0
C6_RetryTerminates == Starved ~> Finished

\* C7: no kernel object exists with |rho| >= 1 or a non-positive spread:
\* construction fails on such parameters.
C7_InvalidKernelRejected ==
    kernel.built => (-1 < kernel.rho /\ kernel.rho < 1 /\ kernel.sigma_x > 0)

\* The thinning of the pool with verbose = False, over the candidates that the
\* draws ds cover: "none" after a bound violation, else what is retained.
RECURSIVE QuietThin(_, _, _, _, _, _)
QuietThin(l, k, pool, ds, n, ret) ==
    IF n >= Len(ds)
    THEN [st |-> "ok", ret |-> ret]
    ELSE LET val == HawkesValue(l, k, pool[n + 1], ret)
         IN  IF FGt(val, UpperBound(l))
             THEN [st |-> "none", ret |-> ret]
             ELSE QuietThin(l, k, pool, ds, n + 1,
                            IF FGeScaled(val, ds[n + 1], UpperBound(l))
                            THEN Retain(ret, pool[n + 1]) ELSE ret)

\* C9: verbose changes diagnostics only: with verbose = True thinning is, for
\* the same pool and the same draws, where it is with verbose = False (same
\* retained points, same failure) and raises no error of its own.
C9_VerboseOnlyDiagnostics ==
    LET q == QuietThin(lam, kernel, homo_points, Ds, 0, <<>>)
    IN  /\ err # "ZeroDivisionError"
        /\ pc = "thin" => q = [st |-> "ok", ret |-> retained_points]
        /\ pc = "thinned" =>
              IF points.none THEN q.st = "none"
              ELSE q = [st |-> "ok", ret |-> points.pts]

\* C10: with mu = 0 the intensity against an empty history is 0, a first
\* candidate is retained only on a draw D = 0, and while every draw is
\* positive thinning retains nothing, returns the empty sequence, and (with
\* min_n_points >= 1) generate does not record the attempt.
AllDrawsPositive == \A x \in 1..Len(Ds) : Ds[x][1] > 0
C10_ZeroBackground ==
    (kernel.built /\ pc # "kernel" /\ lam.mu = 0) =>
        /\ (i = 1 /\ retained_points # <<>>) => Ds[1][1] = 0
        /\ AllDrawsPositive =>
              /\ retained_points = <<>>
              /\ lam_value = F(0)
              /\ err \notin {"IndexError", "ZeroDivisionError"}
              /\ pc = "thinned" =>
                    /\ points = [none |-> FALSE, pts |-> <<>>]
                    /\ args.min_n_points >= 1 =>
                          Rejected(points, args.min_n_points)

====
